---------------------------- MODULE Spec2Model ----------------------------
(***************************************************************************)
(* A model of slop-score: the benchmark driver bench-model.mjs (results    *)
(* file, file lock, retry loop, worker pool) and the text metrics of       *)
(* metrics.js (slop index, n-gram overuse ranking, baseline loaders).      *)
(*                                                                         *)
(* One module, several specifications over the same variables:             *)
(*   Spec         one run of main() of bench-model.mjs                     *)
(*   SpecRetry    generateWithRetry against a failing/succeeding client    *)
(*   SpecMetrics  computeSlopIndex, makeNgrams, rankOveruseWithCounts      *)
(*   SpecProfile  loadHumanProfile over the profiles served                *)
(*   SpecLoad     loadWordfreq, loadHumanProfile, loadSlopSets             *)
(*   SpecDegraded the loaders with resources missing, then analysis calls  *)
(*   SpecMalformed the loaders over lists with malformed entries           *)
(*   SpecWords    mergePossessives, filterNumericWords                     *)
(*   SpecContrast the Interval Merger and the Stage-2 fallback             *)
(*   SpecFair     Spec under the scheduling of the event loop              *)
(*   SpecFrame    ensureModelHeader, atomicUpdateResults on a shared file  *)
(*   SpecRequest  ApiClient._request against the clock                     *)
(* A specification leaves the variables of the other parts unchanged.      *)
(***************************************************************************)
EXTENDS Integers, Sequences, FiniteSets, TLC

VARIABLES
    \* ---- bench-model.mjs: one run of main() ----
    file,            \* the results file: the entry of modelId and the rest
    file0,           \* the file as it was when the run started (history)
    locked,          \* fileLock.locks.get(resultsPath)
    workers,         \* --workers
    nPrompts,        \* --n-prompts
    alreadyGenerated,\* completed.generated
    toGen,           \* promptsToGenerate (prompt indices, ascending)
    nextItem,        \* position of the for..of loop in promptsToGenerate
    pool,            \* the pool array (tasks by prompt index)
    mainPc,          \* where main() is
    tpc,             \* where each processPrompt task is
    tsample,         \* the sample each task is about to write
    completed_count,
    error_count,
    sent,            \* indices for which generateWithRetry was called (history)
    \* ---- bench-model.mjs: generateWithRetry ----
    rt,              \* the state of one generateWithRetry call
    \* ---- metrics.js: analysis functions ----
    met,             \* inputs and results of the analysis functions
    \* ---- metrics.js: loaders and module state ----
    ld               \* module state and the loader calls in flight

runVars == <<file, file0, locked, workers, nPrompts, alreadyGenerated, toGen,
             nextItem, pool, mainPc, tpc, tsample, completed_count,
             error_count, sent>>
vars == <<file, file0, locked, workers, nPrompts, alreadyGenerated, toGen,
          nextItem, pool, mainPc, tpc, tsample, completed_count,
          error_count, sent, rt, met, ld>>

---------------------------------------------------------------------------
(* Bounds of the model *)

\* prompts.json holds MaxPrompts prompts; prompt indices are 0..MaxPrompts-1
MaxPrompts == 3
\* --workers ranges over 1..MaxWorkers
MaxWorkers == 2

Indices == 0 .. (MaxPrompts - 1)

---------------------------------------------------------------------------
(* Generic helpers *)

Min(a, b) == IF a <= b THEN a ELSE b

Range(s) == {s[i] : i \in 1 .. Len(s)}

\* Array.prototype.slice(0, k) for k >= 0
SliceTo(s, k) == SubSeq(s, 1, Min(k, Len(s)))

\* The ascending sequence of the integers lo..hi that satisfy Keep
RECURSIVE AscendingFrom(_, _, _)
AscendingFrom(lo, hi, S) ==
    IF lo > hi THEN <<>>
    ELSE (IF lo \in S THEN <<lo>> ELSE <<>>) \o AscendingFrom(lo + 1, hi, S)

---------------------------------------------------------------------------
(* bench-model.mjs: the results file *)

\* A field that a JSON object does not have
Absent == "<absent>"

\* JavaScript truthiness of a string-or-undefined field
Truthy(x) == x # Absent /\ x # ""

Sample(i, out, err) == [prompt_index |-> i, output |-> out, error |-> err]

\* the default sample = null of atomicUpdateResults
NullSample == [null |-> TRUE]

\* Array.prototype.findIndex(s => s.prompt_index === idx), 1-based, 0 for -1
RECURSIVE FindIndexFrom(_, _, _)
FindIndexFrom(ss, idx, k) ==
    IF k > Len(ss) THEN 0
    ELSE IF ss[k].prompt_index = idx THEN k
    ELSE FindIndexFrom(ss, idx, k + 1)

FindIndex_NotFound(ss, idx) == 0

FindIndex(ss, idx) == FindIndexFrom(ss, idx, 1)

\* Insert s into the sorted sequence acc after every element that is not
\* greater: the step of a stable ascending sort by prompt_index
RECURSIVE InsertByIndex(_, _)
InsertByIndex(acc, s) ==
    IF acc = <<>> THEN <<s>>
    ELSE IF acc[Len(acc)].prompt_index - s.prompt_index > 0
         THEN Append(InsertByIndex(SubSeq(acc, 1, Len(acc) - 1), s), acc[Len(acc)])
         ELSE Append(acc, s)

\* samples.sort((a, b) => a.prompt_index - b.prompt_index), a stable sort
SortByIndex_NoSort(ss) == ss

RECURSIVE SortByIndex(_)
SortByIndex(ss) ==
    IF ss = <<>> THEN <<>>
    ELSE InsertByIndex(SortByIndex(SubSeq(ss, 1, Len(ss) - 1)), ss[Len(ss)])

\* The body of atomicUpdateResults between acquire and release, on the parsed
\* file: create the entry if missing, replace or append the sample, sort,
\* set completed_at. NullSample is sample = null, Absent is completedAt = null.
UpdateData(data, sample, completedAt) ==
    LET d1 == IF data.entry THEN data
              ELSE [data EXCEPT !.entry = TRUE, !.samples = <<>>]
        existingIdx == FindIndex(d1.samples, sample.prompt_index)
        d2 == IF sample = NullSample THEN d1
              ELSE [d1 EXCEPT !.samples =
                      SortByIndex(IF existingIdx > 0
                                  THEN [d1.samples EXCEPT ![existingIdx] = sample]
                                  ELSE Append(d1.samples, sample))]
    IN IF completedAt = Absent THEN d2
       ELSE [d2 EXCEPT !.completed_at = completedAt]

\* ensureModelHeader on the parsed file: writes only when the entry is missing
EnsureModelHeader_Rewrite(data) ==
    [data EXCEPT !.entry = TRUE, !.started_at = "new", !.samples = <<>>]

EnsureModelHeader(data) ==
    IF data.entry THEN data
    ELSE [data EXCEPT !.entry = TRUE, !.started_at = "new", !.samples = <<>>]

GetCompletedPrompts_AnyStored(data) ==
    LET samples == IF data.entry THEN data.samples ELSE <<>>
    IN {samples[k].prompt_index : k \in 1 .. Len(samples)}

\* getCompletedPrompts(...).generated: "Has output and no error = generated"
GetCompletedPrompts(data) ==
    LET samples == IF data.entry THEN data.samples ELSE <<>>
    IN {samples[k].prompt_index : k \in
          {j \in 1 .. Len(samples) :
              Truthy(samples[j].output) /\ ~Truthy(samples[j].error)}}

\* promptsToGenerate: the indices of limitedPrompts that are not generated
PromptsToGenerate(n, generated) ==
    AscendingFrom(0, Min(n, MaxPrompts) - 1, Indices \ generated)

---------------------------------------------------------------------------
(* bench-model.mjs: FileLock *)

\* FileLock.acquire up to its first suspension: the lock is taken when it is
\* free (the test and the set run without an await between them), otherwise
\* the caller sleeps 10 ms and tests again
AcquireFree_NoTest(l) == TRUE

AcquireFree(l) == ~l

\* FileLock.release
Release == FALSE

---------------------------------------------------------------------------
(* bench-model.mjs: main() and processPrompt *)

\* What client.generate can hand back through generateWithRetry: a text
\* (possibly the empty string) or a thrown error
GenOutcomes == {"new", "", "throw"}

\* The sample processPrompt builds from the outcome of generateWithRetry
SampleOf(i, outcome) ==
    IF outcome = "throw" THEN Sample(i, "", "Generate failed")
    ELSE Sample(i, outcome, Absent)

\* The pool.filter callback: `done` is set by a then-callback, which cannot
\* have run when the callback returns, so every promise is kept
KeptByFilter(p) == TRUE

PoolFilter(pl) == SelectSeq(pl, KeptByFilter)

\* Promise.race(pool) has settled: some promise of the pool has settled
RaceSettled == \E k \in 1 .. Len(pool) : tpc[pool[k]] = "done"

\* Promise.all(pool) has settled (no task rejects: processPrompt catches)
AllSettled_AnySettled == \E k \in 1 .. Len(pool) : tpc[pool[k]] = "done"

AllSettled == \A k \in 1 .. Len(pool) : tpc[pool[k]] = "done"

\* The stored samples a run can start from, as processPrompt of an earlier
\* run writes them: per index nothing, a good sample, a failed one (empty
\* output and an error), or one whose generated text was the empty string
StoredKinds == {"none", "good", "failed", "blank"}

StoredSample(i, kind) ==
    CASE kind = "good"   -> Sample(i, "old", Absent)
      [] kind = "failed" -> Sample(i, "", "Generate failed")
      [] kind = "blank"  -> Sample(i, "", Absent)

RECURSIVE StoredSamples(_, _)
StoredSamples(kinds, i) ==
    IF i > MaxPrompts - 1 THEN <<>>
    ELSE (IF kinds[i] = "none" THEN <<>> ELSE <<StoredSample(i, kinds[i])>>)
         \o StoredSamples(kinds, i + 1)

\* A results file: no entry for the model yet, or the entry of an earlier run
FreshFile == [entry |-> FALSE, started_at |-> Absent, samples |-> <<>>,
              completed_at |-> Absent]

\* (completed_at is there when the earlier run recorded every prompt)
EarlierFile(kinds) ==
    [entry |-> TRUE, started_at |-> "old", samples |-> StoredSamples(kinds, 0),
     completed_at |-> IF \A i \in Indices : kinds[i] # "none"
                      THEN "old" ELSE Absent]

NoRetry == [pc |-> "off"]
NoMetrics == [pc |-> "off"]
NoLoad == [pc |-> "off"]

RunInit ==
    /\ \/ file = FreshFile
       \/ \E kinds \in [Indices -> StoredKinds] : file = EarlierFile(kinds)
    /\ file0 = file
    /\ locked = FALSE
    /\ workers \in 1 .. MaxWorkers
    /\ nPrompts \in {MaxPrompts - 1, MaxPrompts}
    /\ alreadyGenerated = {}
    /\ toGen = <<>>
    /\ nextItem = 1
    /\ pool = <<>>
    /\ mainPc = "start"
    /\ tpc = [i \in Indices |-> "idle"]
    /\ tsample = [i \in Indices |-> NullSample]
    /\ completed_count = 0
    /\ error_count = 0
    /\ sent = {}

Init == RunInit /\ rt = NoRetry /\ met = NoMetrics /\ ld = NoLoad

\* main() from getCompletedPrompts to the start of the loop, or, when nothing
\* is left to generate, to the acquire of the completion mark
MainStart ==
    /\ mainPc = "start"
    /\ alreadyGenerated' = GetCompletedPrompts(file)
    /\ toGen' = PromptsToGenerate(nPrompts, alreadyGenerated')
    /\ file' = EnsureModelHeader(file)
    /\ IF toGen' = <<>>
       THEN /\ mainPc' = IF AcquireFree(locked) THEN "markcs" ELSE "marksleep"
            /\ locked' = TRUE
       ELSE /\ mainPc' = "loop"
            /\ UNCHANGED locked
    /\ UNCHANGED <<file0, workers, nPrompts, nextItem, pool, tpc, tsample,
                   completed_count, error_count, sent,
                   rt, met, ld>>

\* One iteration of the for..of loop: processPrompt(item) runs up to its
\* await of generateWithRetry, the promise is pushed, and main awaits
\* Promise.race(pool) when the pool is full
MainSpawn ==
    /\ mainPc = "loop"
    /\ nextItem <= Len(toGen)
    /\ LET i == toGen[nextItem] IN
         /\ tpc' = [tpc EXCEPT ![i] = "gen"]
         /\ sent' = sent \cup {i}
         /\ pool' = Append(pool, i)
    /\ nextItem' = nextItem + 1
    /\ mainPc' = IF Len(pool') >= workers THEN "race"
                 ELSE IF nextItem' > Len(toGen) THEN "all" ELSE "loop"
    /\ UNCHANGED <<file, file0, locked, workers, nPrompts, alreadyGenerated,
                   toGen, tsample, completed_count, error_count,
                   rt, met, ld>>

\* await Promise.race(pool) returns; "Remove completed promises"
MainRace ==
    /\ mainPc = "race"
    /\ RaceSettled
    /\ pool' = PoolFilter(pool)
    /\ mainPc' = IF nextItem > Len(toGen) THEN "all" ELSE "loop"
    /\ UNCHANGED <<file, file0, locked, workers, nPrompts, alreadyGenerated,
                   toGen, nextItem, tpc, tsample, completed_count,
                   error_count, sent,
                   rt, met, ld>>

\* await Promise.all(pool) returns and atomicUpdateResults(.., null, nowIso())
\* runs to the await of fileLock.acquire
MainAll ==
    /\ mainPc = "all"
    /\ AllSettled
    /\ mainPc' = IF AcquireFree(locked) THEN "markcs" ELSE "marksleep"
    /\ locked' = TRUE
    /\ UNCHANGED <<file, file0, workers, nPrompts, alreadyGenerated, toGen,
                   nextItem, pool, tpc, tsample, completed_count,
                   error_count, sent,
                   rt, met, ld>>

\* "Mark completion": the body of atomicUpdateResults, then release
MainMark ==
    /\ mainPc = "markcs"
    /\ file' = UpdateData(file, NullSample, "new")
    /\ locked' = Release
    /\ mainPc' = "done"
    /\ UNCHANGED <<file0, workers, nPrompts, alreadyGenerated, toGen,
                   nextItem, pool, tpc, tsample, completed_count,
                   error_count, sent,
                   rt, met, ld>>

\* generateWithRetry returns or throws in task i; processPrompt builds the
\* sample and atomicUpdateResults runs to the await of fileLock.acquire
GenSettle(i, outcome) ==
    /\ tpc[i] = "gen"
    /\ tsample' = [tsample EXCEPT ![i] = SampleOf(i, outcome)]
    /\ tpc' = [tpc EXCEPT ![i] = IF AcquireFree(locked) THEN "cs" ELSE "sleep"]
    /\ locked' = TRUE
    /\ UNCHANGED <<file, file0, workers, nPrompts, alreadyGenerated, toGen,
                   nextItem, pool, mainPc, completed_count, error_count, sent,
                   rt, met, ld>>

\* The 10 ms timer of FileLock.acquire fires in task i: test the lock again
AcquireRetry(i) ==
    /\ tpc[i] = "sleep"
    /\ AcquireFree(locked)
    /\ locked' = TRUE
    /\ tpc' = [tpc EXCEPT ![i] = "cs"]
    /\ UNCHANGED <<file, file0, workers, nPrompts, alreadyGenerated, toGen,
                   nextItem, pool, mainPc, tsample, completed_count,
                   error_count, sent,
                   rt, met, ld>>

\* Task i holds the lock: atomicUpdateResults reads, updates, writes and
\* releases (all synchronous); its promise resolves and processPrompt counts
\* the prompt in the same microtask checkpoint, before any timer or I/O
\* callback can run, and the task's promise settles
TaskUpdate(i) ==
    /\ tpc[i] = "cs"
    /\ file' = UpdateData(file, tsample[i], Absent)
    /\ locked' = Release
    /\ IF Truthy(tsample[i].error)
       THEN error_count' = error_count + 1 /\ UNCHANGED completed_count
       ELSE completed_count' = completed_count + 1 /\ UNCHANGED error_count
    /\ tpc' = [tpc EXCEPT ![i] = "done"]
    /\ UNCHANGED <<file0, workers, nPrompts, alreadyGenerated, toGen,
                   nextItem, pool, mainPc, tsample, sent, rt, met, ld>>

Next ==
    \/ MainStart
    \/ MainSpawn
    \/ MainRace
    \/ MainAll
    \/ MainMark
    \/ \E i \in Indices, o \in GenOutcomes : GenSettle(i, o)
    \/ \E i \in Indices : AcquireRetry(i)
    \/ \E i \in Indices : TaskUpdate(i)

Spec == Init /\ [][Next]_vars

\* The scheduling a run relies on: the event loop runs every continuation
\* that is ready (main's after an await, a task's after its lock or its
\* write), the 10 ms timer of FileLock.acquire fires, and every generation
\* request eventually succeeds or fails
\* A step of main(), a step of the processPrompt task of prompt i
MainStep == MainStart \/ MainSpawn \/ MainRace \/ MainAll \/ MainMark

TaskStep(i) ==
    \/ \E o \in GenOutcomes : GenSettle(i, o)
    \/ AcquireRetry(i)
    \/ TaskUpdate(i)

Fairness ==
    /\ WF_vars(MainStep)
    /\ \A i \in Indices : WF_vars(TaskStep(i))

SpecFair == Init /\ [][Next]_vars /\ Fairness

\* No run of main() is in progress (the specifications of the other parts)
RunOff ==
    /\ file = FreshFile /\ file0 = FreshFile /\ locked = FALSE
    /\ workers = 1 /\ nPrompts = 1 /\ alreadyGenerated = {} /\ toGen = <<>>
    /\ nextItem = 1 /\ pool = <<>> /\ mainPc = "off"
    /\ tpc = [i \in Indices |-> "idle"]
    /\ tsample = [i \in Indices |-> NullSample]
    /\ completed_count = 0 /\ error_count = 0 /\ sent = {}

---------------------------------------------------------------------------
(* bench-model.mjs: generateWithRetry *)

\* --max-retries ranges over 0..MaxRetriesBound
MaxRetriesBound == 4

\* The errors client.generate can throw
GenErrors == {"timeout", "HTTP 500"}

\* for (let attempt = 0; attempt < maxRetries; attempt++)
LoopContinues(attempt, maxRetries) == attempt < maxRetries

\* if (attempt < maxRetries - 1): sleep retryDelay before the next attempt
SleepsBeforeNext(attempt, maxRetries) == attempt < maxRetries - 1

\* rt: pc, maxRetries, attempt, lastError (Absent for null), calls (number of
\* client.generate calls), errs (the errors thrown so far, history), result
RetryInit ==
    \E m \in 0 .. MaxRetriesBound :
        rt = [pc |-> "loop", maxRetries |-> m, attempt |-> 0,
              lastError |-> Absent, calls |-> 0, errs |-> <<>>,
              result |-> Absent]

InitRetry ==
    /\ RetryInit
    /\ RunOff
    /\ met = NoMetrics /\ ld = NoLoad

\* The loop test succeeds and client.generate is called
RetryCall ==
    /\ rt.pc = "loop"
    /\ LoopContinues(rt.attempt, rt.maxRetries)
    /\ rt' = [rt EXCEPT !.pc = "generate", !.calls = @ + 1]
    /\ UNCHANGED <<runVars, met, ld>>

\* client.generate returns a text: generateWithRetry returns it
RetryReturn(text) ==
    /\ rt.pc = "generate"
    /\ rt' = [rt EXCEPT !.pc = "returned", !.result = text]
    /\ UNCHANGED <<runVars, met, ld>>

\* client.generate throws e: remember it, sleep unless this was the last
\* attempt, else go on to attempt++ and the loop test
RetryCatch(e) ==
    /\ rt.pc = "generate"
    /\ rt' = [rt EXCEPT !.lastError = e,
                        !.errs = Append(@, e),
                        !.pc = IF SleepsBeforeNext(rt.attempt, rt.maxRetries)
                               THEN "sleep" ELSE "loop",
                        !.attempt = IF SleepsBeforeNext(rt.attempt, rt.maxRetries)
                                    THEN @ ELSE @ + 1]
    /\ UNCHANGED <<runVars, met, ld>>

\* The retryDelay timer fires: attempt++ and the loop test
RetryWake ==
    /\ rt.pc = "sleep"
    /\ rt' = [rt EXCEPT !.pc = "loop", !.attempt = @ + 1]
    /\ UNCHANGED <<runVars, met, ld>>

\* The loop test fails: throw "Generate failed after maxRetries retries: ..."
RetryThrow ==
    /\ rt.pc = "loop"
    /\ ~LoopContinues(rt.attempt, rt.maxRetries)
    /\ rt' = [rt EXCEPT !.pc = "thrown",
                        !.result = <<"Generate failed after", rt.maxRetries,
                                     "retries", rt.lastError>>]
    /\ UNCHANGED <<runVars, met, ld>>

NextRetry ==
    \/ RetryCall
    \/ \E text \in {"new", ""} : RetryReturn(text)
    \/ \E e \in GenErrors : RetryCatch(e)
    \/ RetryWake
    \/ RetryThrow

SpecRetry == InitRetry /\ [][NextRetry]_vars

---------------------------------------------------------------------------
(* metrics.js: computeSlopIndex, makeNgrams, rankOveruseWithCounts *)

\* Token lists have up to MaxTokens tokens
MaxTokens == 4
\* topK ranges over 0..MaxTopK and the default
MaxTopK == 2
\* rankOveruseWithCounts(ngrams, humanFreqMap, topK = 40)
DefaultTopK == 40

\* The tokens of the analysed documents
Vocab == {"tapestry", "of", "life"}

TokenLists == UNION {[1 .. k -> Vocab] : k \in 0 .. MaxTokens}

\* What loadSlopSets can have left in slopWords and slopTrigrams (a phrase of
\* a list is whatever its first regex match is, so a trigram list can hold
\* shorter phrases too)
SlopWordSets == {{}, {"tapestry"}, {"tapestry", "life"}}

SlopTrigramSets ==
    {{}, {"tapestry of life"}, {"of of of", "tapestry of"},
     {"of of of", "of life of", "life of life"}}

\* Baseline maps handed to rankOveruseWithCounts. Proportions are written in
\* units of 1e-12, the smoothing constant of the ratio: 0 is a stored
\* proportion of 0, 1000000 is a proportion of 1e-6.
HumanMaps ==
    { <<>>,
      [g \in {"tapestry"} |-> 0],
      [g \in {"of", "of life"} |-> 0],
      [g \in {"tapestry", "of of", "tapestry of"} |->
           IF g = "tapestry" THEN 0 ELSE IF g = "of of" THEN 3 ELSE 1],
      [g \in {"of", "life", "of life", "life of"} |->
           IF g \in {"of", "of life"} THEN 1000000 ELSE 2] }

\* const ratio = model_f / (human_f + 1e-12), in the unit of the proportions
Smooth == 1
\* if (!isFinite(minHuman)) minHuman = 1e-12, in the unit of the proportions
FloorDefault == 1

\* (count / n) * 1000 as an exact fraction; den = 0 is the NaN of 0 / 0
PerThousand(count, n) == [num |-> count * 1000, den |-> n]

ZeroScore == [num |-> 0, den |-> 1]

\* Array.prototype.join(" ")
RECURSIVE JoinSpace(_)
JoinSpace(ts) ==
    IF ts = <<>> THEN ""
    ELSE IF Len(ts) = 1 THEN ts[1]
    ELSE ts[1] \o " " \o JoinSpace(Tail(ts))

\* for (const t of tokens) if (slopWords.has(t)) ...: the hits, in order
RECURSIVE WordHitsFrom(_, _, _)
WordHitsFrom(tokens, k, words) ==
    IF k > Len(tokens) THEN <<>>
    ELSE (IF tokens[k] \in words THEN <<tokens[k]>> ELSE <<>>)
         \o WordHitsFrom(tokens, k + 1, words)

\* for (let i = 0; i < n - 2; i++): is position i (0-based) still in the loop
TrigramLoopTest_OffByOne(i, n) == i < n - 3

TrigramLoopTest(i, n) == i < n - 2

\* The trigram loop from position i (0-based): the hits, in order
RECURSIVE TrigramHitsFrom(_, _, _)
TrigramHitsFrom(tokens, i, trigrams) ==
    IF ~TrigramLoopTest(i, Len(tokens)) THEN <<>>
    ELSE LET tg == tokens[i + 1] \o " " \o tokens[i + 2] \o " " \o tokens[i + 3]
         IN (IF tg \in trigrams THEN <<tg>> ELSE <<>>)
            \o TrigramHitsFrom(tokens, i + 1, trigrams)

\* map.set(x, (map.get(x) || 0) + 1) over a list: the Map as the sequence of
\* its [key, count] entries in insertion order
RECURSIVE Tally(_)
Tally(items) ==
    IF items = <<>> THEN <<>>
    ELSE LET before == Tally(SubSeq(items, 1, Len(items) - 1))
             x == items[Len(items)]
             at == {k \in 1 .. Len(before) : before[k][1] = x}
         IN IF at = {} THEN Append(before, <<x, 1>>)
            ELSE [k \in 1 .. Len(before) |->
                    IF k \in at THEN <<x, before[k][2] + 1>> ELSE before[k]]

\* entries.sort((a, b) => b[1] - a[1]): stable, descending by count
RECURSIVE SortHitsDesc(_)
SortHitsDesc(es) ==
    IF es = <<>> THEN <<>>
    ELSE LET acc == SortHitsDesc(SubSeq(es, 1, Len(es) - 1))
             e == es[Len(es)]
             \* e goes after every entry whose count is not smaller
             keep == IF \E k \in 1 .. Len(acc) : e[2] - acc[k][2] > 0
                     THEN (CHOOSE k \in 1 .. Len(acc) :
                             /\ e[2] - acc[k][2] > 0
                             /\ \A j \in 1 .. k - 1 : ~(e[2] - acc[j][2] > 0)) - 1
                     ELSE Len(acc)
         IN SubSeq(acc, 1, keep) \o <<e>> \o SubSeq(acc, keep + 1, Len(acc))

HitsNull == [kind |-> "null"]
HitsUndefined == [kind |-> "undefined"]
HitsList(es) == [kind |-> "list", entries |-> es]

\* if (!n) return { wordScore: 0, trigramScore: 0, wordHits: null, ... }
EmptyDocument_NoGuard(n) == FALSE

EmptyDocument(n) == n = 0

\* computeSlopIndex(tokens, trackHits) with the module's slopWords, slopTrigrams
ComputeSlopIndex(tokens, trackHits, words, trigrams) ==
    LET n == Len(tokens)
        wordHits == IF words # {} THEN WordHitsFrom(tokens, 1, words) ELSE <<>>
        triHits == IF trigrams # {} /\ n >= 3
                   THEN TrigramHitsFrom(tokens, 0, trigrams) ELSE <<>>
    IN IF EmptyDocument(n)
       THEN [wordScore |-> ZeroScore, trigramScore |-> ZeroScore,
             wordHits |-> HitsNull, trigramHits |-> HitsNull]
       ELSE [wordScore |-> PerThousand(Len(wordHits), n),
             trigramScore |-> PerThousand(Len(triHits), n),
             wordHits |-> IF trackHits THEN HitsList(SortHitsDesc(Tally(wordHits)))
                          ELSE HitsUndefined,
             trigramHits |-> IF trackHits THEN HitsList(SortHitsDesc(Tally(triHits)))
                             ELSE HitsUndefined]

\* makeNgrams(tokens, n): for (let i = 0; i <= tokens.length - n; i++)
RECURSIVE MakeNgramsFrom(_, _, _)
MakeNgramsFrom(tokens, n, i) ==
    IF ~(i <= Len(tokens) - n) THEN <<>>
    ELSE <<JoinSpace(SubSeq(tokens, i + 1, i + n))>> \o MakeNgramsFrom(tokens, n, i + 1)

MakeNgrams(tokens, n) == MakeNgramsFrom(tokens, n, 0)

\* countItems of utils.js: the Map of the occurrence counts of a list
CountItems(items) == Tally(items)

RECURSIVE SumCounts(_)
SumCounts(es) == IF es = <<>> THEN 0 ELSE es[1][2] + SumCounts(Tail(es))

\* for (const v of humanFreqMap.values()) if (v > 0 && v < minHuman) ...
CountsForMin_AnyValue(v) == TRUE

CountsForMin(v) == v > 0

\* minHuman: the smallest value that counts, 1e-12 when there is none
MinHuman(hmap) ==
    LET vs == {hmap[g] : g \in {x \in DOMAIN hmap : CountsForMin(hmap[x])}}
    IN IF vs = {} THEN FloorDefault
       ELSE CHOOSE v \in vs : \A w \in vs : v <= w

\* ratio = (cnt / total) / (human_f + 1e-12) as an exact fraction of 1e12
Ratio(cnt, total, human_f) == [num |-> cnt, den |-> total * (human_f + Smooth)]

\* b[1] - a[1] > 0: row b is to come before row a
ComesBefore_Ascending(b, a) == b.ratio.num * a.ratio.den < a.ratio.num * b.ratio.den

ComesBefore(b, a) == b.ratio.num * a.ratio.den > a.ratio.num * b.ratio.den

\* rows.sort((a, b) => b[1] - a[1]): stable, descending by ratio
RECURSIVE SortRowsDesc(_)
SortRowsDesc(rows) ==
    IF rows = <<>> THEN <<>>
    ELSE LET acc == SortRowsDesc(SubSeq(rows, 1, Len(rows) - 1))
             r == rows[Len(rows)]
             first == {k \in 1 .. Len(acc) :
                         /\ ComesBefore(r, acc[k])
                         /\ \A j \in 1 .. k - 1 : ~ComesBefore(r, acc[j])}
             keep == IF first = {} THEN Len(acc) ELSE (CHOOSE k \in first : TRUE) - 1
         IN SubSeq(acc, 1, keep) \o <<r>> \o SubSeq(acc, keep + 1, Len(acc))

\* rankOveruseWithCounts(ngrams, humanFreqMap, topK)
RankOveruseWithCounts(ngrams, hmap, topK) ==
    IF Len(ngrams) = 0 THEN <<>>
    ELSE LET counts == CountItems(ngrams)
             total == IF SumCounts(counts) = 0 THEN 1 ELSE SumCounts(counts)
             minHuman == MinHuman(hmap)
             rows == [k \in 1 .. Len(counts) |->
                        [ngram |-> counts[k][1],
                         ratio |-> Ratio(counts[k][2], total,
                                         IF counts[k][1] \in DOMAIN hmap
                                         THEN hmap[counts[k][1]] ELSE minHuman),
                         rawCount |-> counts[k][2]]]
         IN SliceTo(SortRowsDesc(rows), topK)

\* met: the analysed document, the loaded slop sets, and the last call made
\* on it with its arguments and result
NoCall == [fn |-> "none"]

InitMetrics ==
    /\ \E ts \in TokenLists, ws \in SlopWordSets, tgs \in SlopTrigramSets :
          met = [tokens |-> ts, slopWords |-> ws, slopTrigrams |-> tgs,
                 last |-> NoCall]
    /\ RunOff
    /\ rt = NoRetry /\ ld = NoLoad

CallComputeSlopIndex(trackHits) ==
    /\ met' = [met EXCEPT !.last =
                 [fn |-> "computeSlopIndex", trackHits |-> trackHits,
                  result |-> ComputeSlopIndex(met.tokens, trackHits,
                                              met.slopWords, met.slopTrigrams)]]
    /\ UNCHANGED <<runVars, rt, ld>>

CallMakeNgrams(n) ==
    /\ met' = [met EXCEPT !.last =
                 [fn |-> "makeNgrams", n |-> n,
                  result |-> MakeNgrams(met.tokens, n)]]
    /\ UNCHANGED <<runVars, rt, ld>>

\* rankOveruseWithCounts(makeNgrams(tokens, n), humanFreqMap, topK)
CallRankOveruse(hmap, topK) ==
    /\ met.last.fn = "makeNgrams"
    /\ met' = [met EXCEPT !.last =
                 [fn |-> "rankOveruseWithCounts", ngrams |-> met.last.result,
                  humanFreqMap |-> hmap, topK |-> topK,
                  result |-> RankOveruseWithCounts(met.last.result, hmap, topK)]]
    /\ UNCHANGED <<runVars, rt, ld>>

NextMetrics ==
    \/ \E trackHits \in BOOLEAN : CallComputeSlopIndex(trackHits)
    \/ \E n \in 1 .. 3 : CallMakeNgrams(n)
    \/ \E hmap \in HumanMaps, topK \in (0 .. MaxTopK) \cup {DefaultTopK} :
          CallRankOveruse(hmap, topK)

SpecMetrics == InitMetrics /\ [][NextMetrics]_vars


---------------------------------------------------------------------------
(* metrics.js: loadHumanProfile, loadSlopSets, loadWordfreq *)

\* A profile holds up to MaxProfileLen records over its two lists
MaxProfileLen == 2
\* frequency of a record ranges over 0..MaxFrequency
MaxFrequency == 2
\* each loader is called up to MaxLoaderCalls times
MaxLoaderCalls == 2
\* loadWordfreq is called by the tasks 1..MaxCallers
MaxCallers == 2

\* Strings that the loaders scan are sequences of characters
LowerLetters ==
    {"a", "b", "c", "d", "e", "f", "g", "h", "i", "j", "k", "l", "m",
     "n", "o", "p", "q", "r", "s", "t", "u", "v", "w", "x", "y", "z"}

\* String.prototype.toLowerCase, one character
ToLowerChar(c) == IF c = "A" THEN "a" ELSE IF c = "B" THEN "b" ELSE c

Lowercase(cs) == [k \in 1 .. Len(cs) |-> ToLowerChar(cs[k])]

\* cs.match(/[a-z]+/g): the maximal runs of lower-case letters, from position
\* k on, cur being the run read so far
RECURSIVE AlphaScan(_, _, _)
AlphaScan(cs, k, cur) ==
    IF k > Len(cs) THEN (IF cur = "" THEN <<>> ELSE <<cur>>)
    ELSE IF cs[k] \in LowerLetters THEN AlphaScan(cs, k + 1, cur \o cs[k])
    ELSE (IF cur = "" THEN <<>> ELSE <<cur>>) \o AlphaScan(cs, k + 1, "")

\* String(it.ngram || "").toLowerCase().match(/[a-z]+/g), <<>> for null
AlphaTokens(cs) == AlphaScan(Lowercase(cs), 1, "")

\* Map.prototype.set
MapSet(map, key, v) ==
    [x \in (DOMAIN map) \cup {key} |-> IF x = key THEN v ELSE map[x]]

\* A record of a baseline list is {ngram, frequency}; a malformed one is
\* null, or lacks its ngram, or has a frequency that is not a number
NullRecord == [null |-> TRUE]

\* Number(it.frequency) || 0: 0 for a missing or non-numeric frequency
NumberOrZero(it) == IF "frequency" \in DOMAIN it THEN it.frequency ELSE 0

\* String(it.ngram || ""): the empty string for a missing ngram
NgramOrEmpty(it) == IF "ngram" \in DOMAIN it THEN it.ngram ELSE <<>>

\* it.frequency of a null record is a TypeError, raised by the first loop of
\* norm before anything is stored
NormThrows(list) == \E k \in 1 .. Len(list) : list[k] = NullRecord

\* norm: let total = 0; for (const it of list) total += Number(it.frequency) || 0
RECURSIVE NormTotal(_)
NormTotal(list) ==
    IF list = <<>> THEN 0 ELSE NumberOrZero(list[1]) + NormTotal(Tail(list))

\* norm: the second loop from record k on; a proportion f / total is stored
\* as the exact fraction [num |-> f, den |-> total]
RECURSIVE NormFrom(_, _, _, _)
NormFrom(list, k, total, map) ==
    IF k > Len(list) THEN map
    ELSE LET toks == AlphaTokens(NgramOrEmpty(list[k]))
         IN IF Len(toks) < 2 THEN NormFrom(list, k + 1, total, map)
            ELSE NormFrom(list, k + 1, total,
                          MapSet(map, JoinSpace(toks),
                                 [num |-> NumberOrZero(list[k]), den |-> total]))

\* norm(list, targetMap) of loadHumanProfile
Norm(list, map) ==
    IF NormTotal(list) <= 0 THEN map
    ELSE NormFrom(list, 1, NormTotal(list), map)

\* The records of human_writing_profile.json
ProfileNgrams ==
    { <<"a", " ", "b">>, <<"A", "-", "b">>, <<"a", "b">>, <<"b", " ", "a">> }

ProfileRecords == [ngram : ProfileNgrams, frequency : 0 .. MaxFrequency]

ProfileLists == UNION {[1 .. k -> ProfileRecords] : k \in 0 .. MaxProfileLen}

\* hp.top_bigrams and hp.top_trigrams of the served profile
Profiles ==
    {p \in [top_bigrams : ProfileLists, top_trigrams : ProfileLists] :
        Len(p.top_bigrams) + Len(p.top_trigrams) <= MaxProfileLen}

\* The run of lower-case letters that starts at k ends at LettersEnd
RECURSIVE LettersEnd(_, _)
LettersEnd(cs, k) ==
    IF k + 1 <= Len(cs) /\ cs[k + 1] \in LowerLetters
    THEN LettersEnd(cs, k + 1) ELSE k

\* [a-z]+(?:'[a-z]+)? from k: where the word ends
WordEnd(cs, k) ==
    LET e == LettersEnd(cs, k)
    IN IF e + 2 <= Len(cs) /\ cs[e + 1] = "'" /\ cs[e + 2] \in LowerLetters
       THEN LettersEnd(cs, e + 2) ELSE e

\* \s+ after e: where the white space ends (e when there is none)
RECURSIVE SpacesEnd(_, _)
SpacesEnd(cs, e) ==
    IF e + 1 <= Len(cs) /\ cs[e + 1] = " " THEN SpacesEnd(cs, e + 1) ELSE e

\* (?:\s+[a-z]+(?:'[a-z]+)?)* after a word that ends at e
RECURSIVE PhraseEnd(_, _)
PhraseEnd(cs, e) ==
    LET w == SpacesEnd(cs, e)
    IN IF w > e /\ w + 1 <= Len(cs) /\ cs[w + 1] \in LowerLetters
       THEN PhraseEnd(cs, WordEnd(cs, w + 1)) ELSE e

RECURSIVE ConcatChars(_)
ConcatChars(cs) == IF cs = <<>> THEN "" ELSE cs[1] \o ConcatChars(Tail(cs))

\* String(item[0]).toLowerCase().match(/[a-z]+(?:'[a-z]+)?(?:\s+...)*/g):
\* the first match, "" when match returns null
FirstPhrase(cs) ==
    LET low == Lowercase(cs)
        starts == {k \in 1 .. Len(low) : low[k] \in LowerLetters}
    IN IF starts = {} THEN ""
       ELSE LET p == CHOOSE k \in starts : \A j \in starts : k <= j
            IN ConcatChars(SubSeq(low, p, PhraseEnd(low, WordEnd(low, p))))

\* An entry of a slop list: null, or an array (of a phrase and more)
NullItem == [kind |-> "null"]
ArrayItem(elems) == [kind |-> "array", elems |-> elems]

\* loadSet: for (const item of a) from entry k on
RECURSIVE LoadSetFrom(_, _, _)
LoadSetFrom(a, k, outSet) ==
    IF k > Len(a) THEN outSet
    ELSE IF a[k].kind = "null" \/ Len(a[k].elems) = 0
         THEN LoadSetFrom(a, k + 1, outSet)
         ELSE LET phrase == FirstPhrase(a[k].elems[1])
              IN LoadSetFrom(a, k + 1,
                             IF phrase # "" THEN outSet \cup {phrase} ELSE outSet)

\* The slop lists served (slop_list.json, _bigrams.json, _trigrams.json)
SlopLists ==
    { [words |-> <<ArrayItem(<<<<"a">>>>)>>,
       bigrams |-> <<ArrayItem(<<<<"A", " ", "b">>>>)>>,
       trigrams |-> <<ArrayItem(<<<<"a", " ", "b", " ", "a">>>>)>>],
      [words |-> <<ArrayItem(<<<<"b">>>>), NullItem,
                   ArrayItem(<<<<"a", "'", "b">>>>)>>,
       bigrams |-> <<ArrayItem(<<>>)>>,
       trigrams |-> <<ArrayItem(<<<<"-", "b", " ", " ", "a", " ", "B", "-", "a">>>>),
                      ArrayItem(<<<<"1">>>>)>>] }

\* The profiles served while the loaders run concurrently
LoadProfiles ==
    { [top_bigrams |-> <<[ngram |-> <<"a", " ", "b">>, frequency |-> 1]>>,
       top_trigrams |-> <<>>],
      [top_bigrams |-> <<[ngram |-> <<"A", "-", "b">>, frequency |-> 2],
                         [ngram |-> <<"a", "b">>, frequency |-> 1]>>,
       top_trigrams |-> <<[ngram |-> <<"b", " ", "a">>, frequency |-> 0]>>] }

\* The resources fetched by the loaders; res.ok of each response
Resources == {"profile", "words", "bigrams", "trigrams", "wordfreq"}

AllOk == [r \in Resources |-> TRUE]

\* ld.pc = "on"; module state: wordfreq, humanBigramFreq, humanTrigramFreq,
\* slopWords, slopBigrams, slopTrigrams; the resources served and whether
\* each can be fetched; where each loader call is; how often each resource
\* was loaded (history); the last analysis call made on the loaded tables
LoadState(profile, lists) ==
    [pc |-> "on",
     ok |-> AllOk, result |-> NoCall,
     wordfreq |-> "null",
     humanBigramFreq |-> <<>>, humanTrigramFreq |-> <<>>,
     slopWords |-> {}, slopBigrams |-> {}, slopTrigrams |-> {},
     profile |-> profile, lists |-> lists,
     wfPc |-> [c \in 1 .. MaxCallers |-> "idle"],
     wfCalls |-> 0, wfLoads |-> 0,
     hpPc |-> "idle", hpCalls |-> 0, hpFetches |-> 0, hpWrites |-> 0,
     ssPc |-> "idle", ssCalls |-> 0, ssFetches |-> 0]

OtherPartsOff == RunOff /\ rt = NoRetry /\ met = NoMetrics

\* loadHumanProfile() is called: fetch("./data/human_writing_profile.json")
ProfileCall ==
    /\ ld.hpPc \in {"idle", "thrown"}
    /\ ld.hpCalls < MaxLoaderCalls
    /\ ld' = [ld EXCEPT !.hpPc = "fetching", !.hpCalls = @ + 1,
                        !.hpFetches = @ + 1]
    /\ UNCHANGED <<runVars, rt, met>>

\* if (!res.ok) throw new Error("human_writing_profile.json missing")
ProfileMissing ==
    /\ ld.hpPc = "fetching"
    /\ ~ld.ok["profile"]
    /\ ld' = [ld EXCEPT !.hpPc = "thrown"]
    /\ UNCHANGED <<runVars, rt, met>>

\* The response and its JSON arrive: norm fills the two maps
ProfileArrive ==
    /\ ld.hpPc = "fetching"
    /\ ld.ok["profile"]
    /\ ~NormThrows(ld.profile.top_bigrams)
    /\ ~NormThrows(ld.profile.top_trigrams)
    /\ ld' = [ld EXCEPT
                !.humanBigramFreq = Norm(ld.profile.top_bigrams, @),
                !.humanTrigramFreq = Norm(ld.profile.top_trigrams, @),
                !.hpWrites = @ + 1,
                !.hpPc = "idle"]
    /\ UNCHANGED <<runVars, rt, met>>

\* The response arrives and a list holds a null record: the norm call of that
\* list throws, after the norm call of the bigram list when that one is sound
ProfileRecordThrows ==
    /\ ld.hpPc = "fetching"
    /\ ld.ok["profile"]
    /\ NormThrows(ld.profile.top_bigrams) \/ NormThrows(ld.profile.top_trigrams)
    /\ ld' = [ld EXCEPT
                !.humanBigramFreq = IF NormThrows(ld.profile.top_bigrams) THEN @
                                    ELSE Norm(ld.profile.top_bigrams, @),
                !.hpPc = "thrown"]
    /\ UNCHANGED <<runVars, rt, met>>

InitProfile ==
    /\ \E p \in Profiles : ld = LoadState(p, CHOOSE l \in SlopLists : TRUE)
    /\ OtherPartsOff

NextProfile ==
    \/ ProfileCall
    \/ ProfileArrive

SpecProfile == InitProfile /\ [][NextProfile]_vars

\* if (wordfreq) return;
WordfreqLoaded(w) == w # "null"

\* Task c calls loadWordfreq(): return at once when wordfreq is set, else
\* start loadWordfreqEnFromUrl / loadWordfreqEnFromFile and await it
WordfreqCall(c) ==
    /\ ld.wfPc[c] \in {"idle", "returned", "thrown"}
    /\ ld.wfCalls < MaxLoaderCalls
    /\ IF WordfreqLoaded(ld.wordfreq)
       THEN ld' = [ld EXCEPT !.wfPc[c] = "returned", !.wfCalls = @ + 1]
       ELSE ld' = [ld EXCEPT !.wfPc[c] = "loading", !.wfCalls = @ + 1,
                             !.wfLoads = @ + 1]
    /\ UNCHANGED <<runVars, rt, met>>

\* The load awaited by task c completes: wordfreq = the loaded instance
WordfreqArrive(c) ==
    /\ ld.wfPc[c] = "loading"
    /\ ld.ok["wordfreq"]
    /\ ld' = [ld EXCEPT !.wordfreq = "WordfreqEn", !.wfPc[c] = "returned"]
    /\ UNCHANGED <<runVars, rt, met>>

\* The load awaited by task c fails. What loadWordfreqEnFromUrl /
\* loadWordfreqEnFromFile of wordfreq.js does then is either: its promise
\* rejects ("rejects": the rejection leaves loadWordfreq as an exception) or
\* it resolves without an instance ("null": wordfreq is assigned null)
WordfreqFail(c, failure) ==
    /\ ld.wfPc[c] = "loading"
    /\ ~ld.ok["wordfreq"]
    /\ ld' = [ld EXCEPT !.wfPc[c] = IF failure = "rejects" THEN "thrown"
                                    ELSE "returned",
                        !.wordfreq = IF failure = "rejects" THEN @ ELSE "null"]
    /\ UNCHANGED <<runVars, rt, met>>

\* loadSlopSets() is called: loadSet fetches slop_list.json
SlopCallStart ==
    /\ ld.ssPc = "idle"
    /\ ld.ssCalls < MaxLoaderCalls
    /\ ld' = [ld EXCEPT !.ssPc = "words", !.ssCalls = @ + 1,
                        !.ssFetches = @ + 1]
    /\ UNCHANGED <<runVars, rt, met>>

\* A slop list arrives: its phrases are added to its set, and the next
\* loadSet fetches the next list
SlopArrive ==
    /\ ld.ssPc \in {"words", "bigrams", "trigrams"}
    /\ ld.ok[ld.ssPc]
    /\ ld' = CASE ld.ssPc = "words" ->
                    [ld EXCEPT !.slopWords = LoadSetFrom(ld.lists.words, 1, @),
                               !.ssPc = "bigrams", !.ssFetches = @ + 1]
               [] ld.ssPc = "bigrams" ->
                    [ld EXCEPT !.slopBigrams = LoadSetFrom(ld.lists.bigrams, 1, @),
                               !.ssPc = "trigrams", !.ssFetches = @ + 1]
               [] ld.ssPc = "trigrams" ->
                    [ld EXCEPT !.slopTrigrams = LoadSetFrom(ld.lists.trigrams, 1, @),
                               !.ssPc = "idle"]
    /\ UNCHANGED <<runVars, rt, met>>

\* loadSet: if (!r.ok) return; the set is left as it is and loadSlopSets
\* goes on to the next list
SlopMissing ==
    /\ ld.ssPc \in {"words", "bigrams", "trigrams"}
    /\ ~ld.ok[ld.ssPc]
    /\ ld' = CASE ld.ssPc = "words" ->
                    [ld EXCEPT !.ssPc = "bigrams", !.ssFetches = @ + 1]
               [] ld.ssPc = "bigrams" ->
                    [ld EXCEPT !.ssPc = "trigrams", !.ssFetches = @ + 1]
               [] ld.ssPc = "trigrams" ->
                    [ld EXCEPT !.ssPc = "idle"]
    /\ UNCHANGED <<runVars, rt, met>>

InitLoad ==
    /\ \E p \in LoadProfiles, l \in SlopLists : ld = LoadState(p, l)
    /\ OtherPartsOff

NextLoad ==
    \/ \E c \in 1 .. MaxCallers : WordfreqCall(c)
    \/ \E c \in 1 .. MaxCallers : WordfreqArrive(c)
    \/ ProfileCall
    \/ ProfileArrive
    \/ SlopCallStart
    \/ SlopArrive

SpecLoad == InitLoad /\ [][NextLoad]_vars

\* lookupZipf(word), zipf being what wordfreq.zipfFrequency(word) returns
ZipfNull == [kind |-> "null"]

LookupZipf(w, zipf) ==
    IF ~WordfreqLoaded(w) THEN ZipfNull
    ELSE IF zipf > 0 THEN [kind |-> "zipf", value |-> zipf] ELSE ZipfNull

\* computeSlopIndex(tokens) reads the module's slopWords and slopTrigrams
AnalyseSlopIndex(tokens) ==
    /\ ld' = [ld EXCEPT !.result =
                [fn |-> "computeSlopIndex", tokens |-> tokens,
                 result |-> ComputeSlopIndex(tokens, FALSE, ld.slopWords,
                                             ld.slopTrigrams)]]
    /\ UNCHANGED <<runVars, rt, met>>

\* rankOveruseWithCounts(makeNgrams(tokens, n), humanBigramFreq or
\* humanTrigramFreq), called while that table holds no entry
AnalyseRank(tokens, n) ==
    LET hmap == IF n = 2 THEN ld.humanBigramFreq ELSE ld.humanTrigramFreq
    IN /\ hmap = <<>>
       /\ ld' = [ld EXCEPT !.result =
                   [fn |-> "rankOveruseWithCounts", tokens |-> tokens, n |-> n,
                    result |-> RankOveruseWithCounts(MakeNgrams(tokens, n), hmap,
                                                     DefaultTopK)]]
       /\ UNCHANGED <<runVars, rt, met>>

\* lookupZipf(word) reads the module's wordfreq
AnalyseLookupZipf(zipf) ==
    /\ ld' = [ld EXCEPT !.result =
                [fn |-> "lookupZipf", result |-> LookupZipf(ld.wordfreq, zipf)]]
    /\ UNCHANGED <<runVars, rt, met>>

\* Any of the resources may be missing (response not ok); those served are a
\* one-record profile and one phrase per slop list
InitDegraded ==
    /\ \E ok \in [Resources -> BOOLEAN] :
          ld = [LoadState(
                  [top_bigrams |-> <<[ngram |-> <<"a", " ", "b">>, frequency |-> 1]>>,
                   top_trigrams |-> <<>>],
                  [words |-> <<ArrayItem(<<<<"a">>>>)>>,
                   bigrams |-> <<ArrayItem(<<<<"A", " ", "b">>>>)>>,
                   trigrams |-> <<ArrayItem(<<<<"a", " ", "b", " ", "a">>>>)>>])
                EXCEPT !.ok = ok]
    /\ OtherPartsOff

NextDegraded ==
    \/ \E c \in 1 .. MaxCallers : WordfreqCall(c)
    \/ \E c \in 1 .. MaxCallers : WordfreqArrive(c)
    \/ \E c \in 1 .. MaxCallers, f \in {"rejects", "null"} : WordfreqFail(c, f)
    \/ ProfileCall
    \/ ProfileMissing
    \/ ProfileArrive
    \/ SlopCallStart
    \/ SlopMissing
    \/ SlopArrive
    \/ \E ts \in {<<"a">>, <<"a", "b", "a">>} : AnalyseSlopIndex(ts)
    \/ \E ts \in {<<"a">>, <<"a", "b", "a">>}, n \in 2 .. 3 : AnalyseRank(ts, n)
    \/ \E zipf \in {0, 3} : AnalyseLookupZipf(zipf)

SpecDegraded == InitDegraded /\ [][NextDegraded]_vars

\* Baseline records served with malformed ones among them: a sound record,
\* null, one without ngram, one whose frequency is not a number
MalformedRecords ==
    { [ngram |-> <<"a", " ", "b">>, frequency |-> 1],
      NullRecord,
      [frequency |-> 1],
      [ngram |-> <<"b", " ", "a">>, frequency_text |-> "many"] }

MalformedProfiles ==
    [top_bigrams : UNION {[1 .. k -> MalformedRecords] : k \in 0 .. MaxProfileLen},
     top_trigrams : {<<>>, <<NullRecord>>,
                     <<[ngram |-> <<"a", " ", "b", " ", "a">>, frequency |-> 2]>>}]

\* String(null), the phrase read from an entry [null]
StringOfNull == <<"n", "u", "l", "l">>

\* Slop lists served with malformed entries among them: null, an empty array,
\* an entry without a phrase ([null], [""])
MalformedLists ==
    [words |-> <<NullItem, ArrayItem(<<<<"a">>>>), ArrayItem(<<>>),
                 ArrayItem(<<<<"b">>>>)>>,
     bigrams |-> <<ArrayItem(<<StringOfNull>>), ArrayItem(<<<<"a", " ", "b">>>>)>>,
     trigrams |-> <<ArrayItem(<<<<>>>>), ArrayItem(<<<<"a", " ", "b", " ", "a">>>>)>>]

InitMalformed ==
    /\ \E p \in MalformedProfiles : ld = LoadState(p, MalformedLists)
    /\ OtherPartsOff

NextMalformed ==
    \/ ProfileCall
    \/ ProfileArrive
    \/ ProfileRecordThrows
    \/ SlopCallStart
    \/ SlopArrive

SpecMalformed == InitMalformed /\ [][NextMalformed]_vars

---------------------------------------------------------------------------
(* metrics.js: mergePossessives, filterNumericWords *)

\* A word-count map has up to MaxWords entries
MaxWords == 3

\* Words are sequences of characters. KNOWN_CONTRACTIONS_S: it's, that's,
\* what's, who's, he's, she's, there's, here's, where's, when's, why's,
\* how's, let's
KNOWN_CONTRACTIONS_S ==
    { <<"i", "t", "'", "s">>,
      <<"t", "h", "a", "t", "'", "s">>,
      <<"w", "h", "a", "t", "'", "s">>,
      <<"w", "h", "o", "'", "s">>,
      <<"h", "e", "'", "s">>,
      <<"s", "h", "e", "'", "s">>,
      <<"t", "h", "e", "r", "e", "'", "s">>,
      <<"h", "e", "r", "e", "'", "s">>,
      <<"w", "h", "e", "r", "e", "'", "s">>,
      <<"w", "h", "e", "n", "'", "s">>,
      <<"w", "h", "y", "'", "s">>,
      <<"h", "o", "w", "'", "s">>,
      <<"l", "e", "t", "'", "s">> }

\* word.endsWith("'s")
EndsWithS(word) ==
    Len(word) >= 2 /\ word[Len(word) - 1] = "'" /\ word[Len(word)] = "s"

\* word.slice(0, -2)
SliceOffTwo(word) == SubSeq(word, 1, Len(word) - 2)

\* merged.set(key, (merged.get(key) || 0) + count)
MapAdd_Overwrite(map, key, count) == MapSet(map, key, count)

MapAdd(map, key, count) ==
    MapSet(map, key, (IF key \in DOMAIN map THEN map[key] ELSE 0) + count)

\* mergePossessives: for (const [word, count] of wordCounts.entries()) from
\* entry k on; a Map argument is the sequence of its entries, the result a
\* function from its keys (its insertion order is not kept)
RECURSIVE MergeFrom(_, _, _)
MergeFrom(wordCounts, k, merged) ==
    IF k > Len(wordCounts) THEN merged
    ELSE LET word == wordCounts[k][1]
             count == wordCounts[k][2]
         IN IF /\ EndsWithS(word) /\ word \notin KNOWN_CONTRACTIONS_S
               /\ SliceOffTwo(word) # <<>>
            THEN MergeFrom(wordCounts, k + 1,
                           MapAdd(merged, SliceOffTwo(word), count))
            ELSE MergeFrom(wordCounts, k + 1, MapAdd(merged, word, count))

MergePossessives(wordCounts) == MergeFrom(wordCounts, 1, <<>>)

\* /\d/
Digits == {"0", "1", "2", "3", "4", "5", "6", "7", "8", "9"}

\* (word.match(/\d/g) || []).length
DigitCount(word) == Cardinality({k \in 1 .. Len(word) : word[k] \in Digits})

\* word.length > 0 && (digitCount / word.length) > 0.2; the quotient of two
\* integers exceeds 0.2 exactly when five times the first exceeds the second
MostlyNumeric_AtLeast(digitCount, length) ==
    length > 0 /\ 5 * digitCount >= length

MostlyNumeric(digitCount, length) == length > 0 /\ 5 * digitCount > length

\* filterNumericWords: the loop from entry k on
RECURSIVE FilterFrom(_, _, _)
FilterFrom(wordCounts, k, filtered) ==
    IF k > Len(wordCounts) THEN filtered
    ELSE LET word == wordCounts[k][1]
         IN IF MostlyNumeric(DigitCount(word), Len(word))
            THEN FilterFrom(wordCounts, k + 1, filtered)
            ELSE FilterFrom(wordCounts, k + 1,
                            MapSet(filtered, word, wordCounts[k][2]))

FilterNumericWords(wordCounts) == FilterFrom(wordCounts, 1, <<>>)

\* The words of the maps: cat, cat's, it's, 's, cat's's, it's's
PossessiveWords ==
    { <<"c", "a", "t">>,
      <<"c", "a", "t", "'", "s">>,
      <<"i", "t", "'", "s">>,
      <<"'", "s">>,
      <<"c", "a", "t", "'", "s", "'", "s">>,
      <<"i", "t", "'", "s", "'", "s">> }

\* a1, abc1d, abcde1, 12, the empty word, cat
NumericWords ==
    { <<"a", "1">>,
      <<"a", "b", "c", "1", "d">>,
      <<"a", "b", "c", "d", "e", "1">>,
      <<"1", "2">>,
      <<>>,
      <<"c", "a", "t">> }

\* The Maps with up to MaxWords entries over the words W, as the sequences
\* of their entries (keys are distinct, counts are 1 or 2)
WordCountMaps(W) ==
    UNION { {m \in [1 .. k -> W \X (1 .. 2)] :
               \A i, j \in 1 .. k : m[i][1] = m[j][1] => i = j} :
            k \in 0 .. MaxWords }

\* met: the word-count map handed to the calls, and the last call
InitWords ==
    /\ \E wc \in WordCountMaps(PossessiveWords) \cup WordCountMaps(NumericWords) :
          met = [wordCounts |-> wc, last |-> NoCall]
    /\ RunOff
    /\ rt = NoRetry /\ ld = NoLoad

CallMergePossessives ==
    /\ met' = [met EXCEPT !.last = [fn |-> "mergePossessives",
                                     result |-> MergePossessives(met.wordCounts)]]
    /\ UNCHANGED <<runVars, rt, ld>>

CallFilterNumericWords ==
    /\ met' = [met EXCEPT !.last = [fn |-> "filterNumericWords",
                                     result |-> FilterNumericWords(met.wordCounts)]]
    /\ UNCHANGED <<runVars, rt, ld>>

NextWords ==
    \/ CallMergePossessives
    \/ CallFilterNumericWords

SpecWords == InitWords /\ [][NextWords]_vars

---------------------------------------------------------------------------
(* Contrast detection: the Interval Merger and the Stage-2 fallback, as the  *)
(* specification describes them (sections 3, 4.5, 4.7 and 6)                 *)

\* A document has MaxDocLen characters, at offsets 0 .. MaxDocLen - 1
MaxDocLen == 4
\* Stage 1 yields up to MaxStage1 matches (Stage 2 up to one)
MaxStage1 == 2

\* Sentence spans {index, startOffset, endOffset}: they partition the text;
\* starts holds the offsets at which the sentences after the first begin. The
\* last character of a sentence that is followed by another one is the
\* white space of the sentence boundary.
SentenceSpans(starts) ==
    LET b == <<0>> \o AscendingFrom(1, MaxDocLen - 1, starts)
    IN [k \in 1 .. Len(b) |->
          [index |-> k - 1, startOffset |-> b[k],
           endOffset |-> IF k < Len(b) THEN b[k + 1] ELSE MaxDocLen]]

\* The matches {patternId, stage, startOffset, endOffset} (half-open spans in
\* raw-text offsets) that the patterns ids of a stage can yield
MatchesOf(stage, ids) ==
    {m \in [patternId : ids, stage : {stage},
            startOffset : 0 .. MaxDocLen - 1, endOffset : 1 .. MaxDocLen] :
        m.startOffset < m.endOffset}

\* The subsets of S with up to n elements
RECURSIVE SubsetsUpTo(_, _)
SubsetsUpTo(S, n) ==
    IF n = 0 THEN {{}}
    ELSE LET P == SubsetsUpTo(S, n - 1)
         IN P \cup {p \cup {x} : p \in P, x \in S}

\* "sort all matches by start offset"
RECURSIVE SortByStart(_)
SortByStart(matches) ==
    IF matches = {} THEN <<>>
    ELSE LET m == CHOOSE x \in matches :
                     \A y \in matches : x.startOffset <= y.startOffset
         IN <<m>> \o SortByStart(matches \ {m})

\* Two spans (cur before m in the order of their starts) "overlap or are
\* separated only by sentence-boundary whitespace"
Mergeable(cur, m, starts) ==
    \/ m.startOffset < cur.endOffset
    \/ \A o \in cur.endOffset .. m.startOffset - 1 : o + 1 \in starts

\* "greedily merge ... into one interval": cur is the interval being built,
\* the matches from k on are still to come; the pattern identifiers of the
\* merged matches are all retained
RECURSIVE GreedyMerge(_, _, _, _)
GreedyMerge(sorted, k, cur, starts) ==
    IF k > Len(sorted) THEN <<cur>>
    ELSE IF Mergeable(cur, sorted[k], starts)
         THEN GreedyMerge(sorted, k + 1,
                 [startOffset |-> cur.startOffset,
                  endOffset |-> IF sorted[k].endOffset > cur.endOffset
                                THEN sorted[k].endOffset ELSE cur.endOffset,
                  sourcePatternIds |->
                      cur.sourcePatternIds \cup {sorted[k].patternId}],
                 starts)
         ELSE <<cur>> \o
              GreedyMerge(sorted, k + 1,
                 [startOffset |-> sorted[k].startOffset,
                  endOffset |-> sorted[k].endOffset,
                  sourcePatternIds |-> {sorted[k].patternId}],
                 starts)

\* "widen it to cover every sentence it touches": the MergedMatch
\* {sentenceIndices, startOffset, endOffset, sourcePatternIds} of an interval
Widen(iv, spans) ==
    LET touched == {k \in 1 .. Len(spans) :
                       /\ spans[k].startOffset < iv.endOffset
                       /\ iv.startOffset < spans[k].endOffset}
        first == CHOOSE k \in touched : \A j \in touched : k <= j
        last == CHOOSE k \in touched : \A j \in touched : k >= j
    IN [sentenceIndices |-> {spans[k].index : k \in touched},
        startOffset |-> spans[first].startOffset,
        endOffset |-> spans[last].endOffset,
        sourcePatternIds |-> iv.sourcePatternIds]

\* "deduplicate merged intervals that resolve to an identical sentence-index
\* set": the first of them stays, with the pattern identifiers of all of them
Dedupe(ms) ==
    LET firsts == {k \in 1 .. Len(ms) :
                      \A j \in 1 .. k - 1 :
                         ms[j].sentenceIndices # ms[k].sentenceIndices}
        kept == AscendingFrom(1, Len(ms), firsts)
    IN [i \in 1 .. Len(kept) |->
          [ms[kept[i]] EXCEPT !.sourcePatternIds =
              UNION {ms[j].sourcePatternIds :
                       j \in {x \in 1 .. Len(ms) :
                                 ms[x].sentenceIndices = ms[kept[i]].sentenceIndices}}]]

\* The Interval Merger: sort, merge greedily, widen, deduplicate
IntervalMerger(matches, starts) ==
    IF matches = {} THEN <<>>
    ELSE LET sorted == SortByStart(matches)
             merged == GreedyMerge(sorted, 2,
                          [startOffset |-> sorted[1].startOffset,
                           endOffset |-> sorted[1].endOffset,
                           sourcePatternIds |-> {sorted[1].patternId}],
                          starts)
         IN Dedupe([k \in 1 .. Len(merged) |->
                       Widen(merged[k], SentenceSpans(starts))])

\* met: the sentence starts of the document, the matches of the two stages,
\* and the last detection with its result
InitContrast ==
    /\ \E starts \in SUBSET (1 .. MaxDocLen - 1),
          s1 \in SubsetsUpTo(MatchesOf(1, {"p1", "p2"}), MaxStage1),
          s2 \in SubsetsUpTo(MatchesOf(2, {"t1"}), 1) :
          met = [starts |-> starts, stage1 |-> s1, stage2 |-> s2,
                 last |-> NoCall]
    /\ RunOff
    /\ rt = NoRetry /\ ld = NoLoad

\* One detection: with the Tagging Adapter available the Stage-2 matches join
\* the Stage-1 matches; when it is unavailable or fails Stage 2 is skipped
DetectContrast(tagging) ==
    /\ met' = [met EXCEPT !.last =
                 [fn |-> "detectContrast", tagging |-> tagging,
                  result |-> IntervalMerger(
                     IF tagging = "available" THEN met.stage1 \cup met.stage2
                     ELSE met.stage1, met.starts)]]
    /\ UNCHANGED <<runVars, rt, ld>>

NextContrast ==
    \E tagging \in {"available", "unavailable", "fails"} : DetectContrast(tagging)

SpecContrast == InitContrast /\ [][NextContrast]_vars

---------------------------------------------------------------------------
(* bench-model.mjs: ensureModelHeader and atomicUpdateResults on a results  *)
(* file that also holds another model's entry                               *)

\* The calls made on one file
MaxFrameCalls == 2

\* data[otherModelId]: no entry, or the entry of a finished run of that model
OtherEntries ==
    {[present |-> FALSE],
     [present |-> TRUE, started_at |-> "theirs",
      samples |-> <<Sample(0, "theirs", Absent)>>, completed_at |-> "theirs"]}

\* A results file that parses: the entry of modelId and the other entry
FrameFile(f, other) ==
    [entry |-> f.entry, started_at |-> f.started_at, samples |-> f.samples,
     completed_at |-> f.completed_at, others |-> other]

FrameFiles ==
    {FrameFile(f, o) :
        f \in {FreshFile} \cup {EarlierFile(kinds) : kinds \in [Indices -> StoredKinds]},
        o \in OtherEntries}

\* The samples processPrompt passes, and sample = null
FrameSamples ==
    {NullSample} \cup {SampleOf(i, o) : i \in Indices, o \in {"new", "throw"}}

\* met: the last call (fn, the file before it, its arguments), the number of
\* calls, and whether an ensureModelHeader call has found the entry present
InitFrame ==
    /\ file \in FrameFiles /\ file0 = file /\ locked = FALSE
    /\ workers = 1 /\ nPrompts = 1 /\ alreadyGenerated = {} /\ toGen = <<>>
    /\ nextItem = 1 /\ pool = <<>> /\ mainPc = "off"
    /\ tpc = [i \in Indices |-> "idle"]
    /\ tsample = [i \in Indices |-> NullSample]
    /\ completed_count = 0 /\ error_count = 0 /\ sent = {}
    /\ rt = NoRetry /\ ld = NoLoad
    /\ met = [fn |-> "none", before |-> file, sample |-> NullSample,
              completedAt |-> Absent, calls |-> 0, resumed |-> FALSE]

\* ensureModelHeader(resultsPath, modelId, endpoint, params, startedAt)
CallEnsureModelHeader ==
    /\ met.calls < MaxFrameCalls
    /\ file' = EnsureModelHeader(file)
    /\ met' = [fn |-> "ensureModelHeader", before |-> file,
               sample |-> NullSample, completedAt |-> Absent,
               calls |-> met.calls + 1, resumed |-> met.resumed \/ file.entry]
    /\ UNCHANGED <<file0, locked, workers, nPrompts, alreadyGenerated, toGen,
                   nextItem, pool, mainPc, tpc, tsample, completed_count,
                   error_count, sent, rt, ld>>

\* atomicUpdateResults(resultsPath, modelId, sample, completedAt), from
\* acquire to release with no other caller of the lock
CallAtomicUpdateResults(sample, completedAt) ==
    /\ met.calls < MaxFrameCalls
    /\ AcquireFree(locked)
    /\ file' = UpdateData(file, sample, completedAt)
    /\ locked' = Release
    /\ met' = [fn |-> "atomicUpdateResults", before |-> file,
               sample |-> sample, completedAt |-> completedAt,
               calls |-> met.calls + 1, resumed |-> met.resumed]
    /\ UNCHANGED <<file0, workers, nPrompts, alreadyGenerated, toGen,
                   nextItem, pool, mainPc, tpc, tsample, completed_count,
                   error_count, sent, rt, ld>>

NextFrame ==
    \/ CallEnsureModelHeader
    \/ \E sample \in FrameSamples, completedAt \in {Absent, "new"} :
          CallAtomicUpdateResults(sample, completedAt)

SpecFrame == InitFrame /\ [][NextFrame]_vars

---------------------------------------------------------------------------
(* bench-model.mjs: ApiClient._request *)

\* this.timeout ranges over 1..MaxTimeout (in ticks of the clock)
MaxTimeout == 3
\* The clock is followed for MaxOverrun ticks past the largest timeout
MaxOverrun == 2

\* response.status: response.ok is status 200
Statuses == {200, 429, 500}

\* rt: pc ("fetch": awaiting fetch(), "body": awaiting response.json() or
\* response.text(), "returned", "thrown"), timeout, clock (ticks since the
\* call), armed (the setTimeout timer is pending), aborted
\* (controller.signal.aborted), status (0 before the headers), headersAt
InitRequest ==
    /\ \E t \in 1 .. MaxTimeout :
          rt = [pc |-> "fetch", timeout |-> t, clock |-> 0, armed |-> TRUE,
                aborted |-> FALSE, status |-> 0, headersAt |-> 0]
    /\ RunOff
    /\ met = NoMetrics /\ ld = NoLoad

Pending == rt.pc \in {"fetch", "body"}

\* The timer is due: it fires before the clock goes on
TimerDue == rt.armed /\ rt.clock >= rt.timeout

\* One tick passes while the request waits for the server
ReqTick ==
    /\ Pending
    /\ ~TimerDue
    /\ rt.clock < MaxTimeout + MaxOverrun
    /\ rt' = [rt EXCEPT !.clock = @ + 1]
    /\ UNCHANGED <<runVars, met, ld>>

\* The timer fires: controller.abort() rejects the pending await with an
\* AbortError; the catch clears the timer and rethrows
ReqTimerFires ==
    /\ Pending
    /\ TimerDue
    /\ rt' = [rt EXCEPT !.aborted = TRUE, !.armed = FALSE, !.pc = "thrown"]
    /\ UNCHANGED <<runVars, met, ld>>

\* fetch() resolves with the response (status line and headers):
\* clearTimeout(timeoutId), then await response.text() or response.json()
ReqHeaders(status) ==
    /\ rt.pc = "fetch"
    /\ rt' = [rt EXCEPT !.armed = FALSE, !.pc = "body", !.status = status,
                        !.headersAt = rt.clock]
    /\ UNCHANGED <<runVars, met, ld>>

\* fetch() rejects (network error): the catch clears the timer and rethrows
ReqFetchFails ==
    /\ rt.pc = "fetch"
    /\ rt' = [rt EXCEPT !.armed = FALSE, !.pc = "thrown"]
    /\ UNCHANGED <<runVars, met, ld>>

\* The body arrives: for a response that is not ok, throw HTTP <status>; for
\* an ok response return the parsed JSON, or throw when it does not parse;
\* the catch clears the timer and rethrows
ReqBody(parses) ==
    /\ rt.pc = "body"
    /\ rt' = [rt EXCEPT !.armed = FALSE,
                        !.pc = IF rt.status = 200 /\ parses
                               THEN "returned" ELSE "thrown"]
    /\ UNCHANGED <<runVars, met, ld>>

NextRequest ==
    \/ ReqTick
    \/ ReqTimerFires
    \/ \E status \in Statuses : ReqHeaders(status)
    \/ ReqFetchFails
    \/ \E parses \in BOOLEAN : ReqBody(parses)

SpecRequest == InitRequest /\ [][NextRequest]_vars

---------------------------------------------------------------------------
(* Claims *)

\* The processPrompt tasks that have been started and have not finished
InFlight == {i \in Indices : tpc[i] \in {"gen", "sleep", "cs"}}

\* C1: the number of processPrompt tasks that have been started and have not
\* yet finished never exceeds `workers`.
C1_WorkersBoundParallelism == Cardinality(InFlight) <= workers

\* The tasks (processPrompt tasks and main) inside atomicUpdateResults with
\* the lock taken
LockHolders ==
    {i \in Indices : tpc[i] = "cs"} \cup (IF mainPc = "markcs" THEN {-1} ELSE {})

HasSample(data, s) == \E k \in 1 .. Len(data.samples) : data.samples[k] = s

\* C2: at most one task holds the FileLock at any time (and the lock is set
\* while it is held), and no written sample is lost: the file holds the
\* sample of every task that has finished, in particular of every processed
\* index once all tasks have finished.
C2_AtomicWrites ==
    /\ Cardinality(LockHolders) <= 1
    /\ LockHolders # {} => locked
    /\ \A i \in Indices : tpc[i] = "done" => HasSample(file, tsample[i])
    /\ mainPc = "done" =>
          \A k \in 1 .. Len(toGen) :
             \E j \in 1 .. Len(file.samples) :
                file.samples[j].prompt_index = toGen[k]

\* C2 witness: one task updates the file while another waits for the lock
\* and a third has already written
C2_Witness ==
    \E i, j, k \in Indices :
        tpc[i] = "cs" /\ tpc[j] = "sleep" /\ tpc[k] = "done"

\* A stored sample of the starting file with non-empty output and no error
StoredGood(s) == s.output \notin {"", Absent} /\ s.error \in {"", Absent}

SkippedAtStart ==
    {i \in Indices : \E k \in 1 .. Len(file0.samples) :
        file0.samples[k].prompt_index = i /\ StoredGood(file0.samples[k])}

LoopOver == mainPc \in {"all", "markcs", "done"}

\* C3: no generation is ever started for an index whose stored sample has a
\* non-empty output and no error, that stored sample stays in the file
\* unchanged, and once the loop is over every other index among the first
\* n-prompts prompts has been sent for generation.
C3_ResumeSkips ==
    /\ sent \cap SkippedAtStart = {}
    /\ \A k \in 1 .. Len(file0.samples) :
          StoredGood(file0.samples[k]) => HasSample(file, file0.samples[k])
    /\ LoopOver =>
          sent = {i \in Indices : i < nPrompts} \ SkippedAtStart

\* C3 witness: a finished resumed run that skipped a stored good sample and
\* regenerated a stored failed one
C3_Witness ==
    /\ mainPc = "done"
    /\ SkippedAtStart # {}
    /\ \E k \in 1 .. Len(file0.samples) :
          /\ ~StoredGood(file0.samples[k])
          /\ file0.samples[k].prompt_index \in sent

\* C4: when every attempt fails, generateWithRetry has called client.generate
\* maxRetries + 1 times (maxRetries retries after the first attempt) when it
\* throws, and it never makes more than maxRetries retries.
C4_RetriesExactlyMax ==
    /\ rt.pc = "thrown" => rt.calls = rt.maxRetries + 1
    /\ rt.calls <= rt.maxRetries + 1

SlopCall == met.last.fn = "computeSlopIndex"

\* The positions whose token is in the flagged word set
FlaggedWordPositions ==
    {i \in 1 .. Len(met.tokens) : met.tokens[i] \in met.slopWords}

\* The positions i <= n - 3 (0-based; 1 .. n - 2 here) where the three tokens
\* joined by single spaces are a string of the flagged trigram set
FlaggedTrigramPositions ==
    {i \in 1 .. Len(met.tokens) - 2 :
        JoinSpace(<<met.tokens[i], met.tokens[i + 1], met.tokens[i + 2]>>)
           \in met.slopTrigrams}

\* score * n = 1000 * count, for the exact fraction score
PerThousandOf(score, n, count) ==
    score.den # 0 /\ score.num * n = 1000 * count * score.den

\* C5: for a non-empty token list of length n, wordScore * n = 1000 * (number
\* of positions with a flagged token) and trigramScore * n = 1000 * (number
\* of positions where three consecutive tokens form a flagged trigram,
\* overlapping ones each counted); nothing else contributes.
C5_ScoresPerThousand ==
    (SlopCall /\ Len(met.tokens) > 0) =>
        /\ PerThousandOf(met.last.result.wordScore, Len(met.tokens),
                         Cardinality(FlaggedWordPositions))
        /\ PerThousandOf(met.last.result.trigramScore, Len(met.tokens),
                         Cardinality(FlaggedTrigramPositions))

\* C5 witness: a scored document with flagged words and two overlapping
\* flagged trigrams, the second one ending at the last token
C5_Witness ==
    /\ SlopCall
    /\ Cardinality(FlaggedWordPositions) >= 1
    /\ \E i \in FlaggedTrigramPositions :
          i + 1 \in FlaggedTrigramPositions /\ i + 3 = Len(met.tokens)

IsZeroScore(score) == score.den # 0 /\ score.num = 0

\* C6: on an empty token list computeSlopIndex returns wordScore = 0 and
\* trigramScore = 0 (no 0/0), makeNgrams returns no n-gram, and
\* rankOveruseWithCounts on an empty n-gram list returns an empty ranking.
C6_EmptyDocumentZero ==
    /\ (SlopCall /\ met.tokens = <<>>) =>
          /\ IsZeroScore(met.last.result.wordScore)
          /\ IsZeroScore(met.last.result.trigramScore)
    /\ (met.last.fn = "makeNgrams" /\ met.tokens = <<>>) =>
          met.last.result = <<>>
    /\ (met.last.fn = "rankOveruseWithCounts" /\ met.last.ngrams = <<>>) =>
          met.last.result = <<>>

\* C6 witness: the empty document has been scored with non-empty slop sets
C6_Witness ==
    /\ SlopCall
    /\ met.tokens = <<>>
    /\ met.slopWords # {} /\ met.slopTrigrams # {}

\* C6, second witness state: the ranking of the empty n-gram list of the
\* empty document against a non-empty table
C6_WitnessRank ==
    /\ met.last.fn = "rankOveruseWithCounts"
    /\ met.tokens = <<>> /\ met.last.ngrams = <<>>
    /\ met.last.humanFreqMap # <<>>

RankCall == met.last.fn = "rankOveruseWithCounts"

Occurrences(g, G) == Cardinality({i \in 1 .. Len(G) : G[i] = g})

FirstOccurrence(g, G) ==
    CHOOSE i \in 1 .. Len(G) : G[i] = g /\ \A j \in 1 .. i - 1 : G[j] # g

\* fractions: a >= b, a = b
FracGeq(a, b) == a.num * b.den >= b.num * a.den
FracEq(a, b) == a.num * b.den = b.num * a.den

\* The smallest positive proportion of the table, 1e-12 when it has none
FloorEpsilon(hmap) ==
    LET pos == {v \in {hmap[g] : g \in DOMAIN hmap} : v > 0}
    IN IF pos = {} THEN 1 ELSE CHOOSE v \in pos : \A w \in pos : v <= w

\* The overuse ratio of n-gram g of list G against the table, as the ranker
\* is specified: observed / (baseline or floor + smoothing)
RatioOf(g, G, hmap) ==
    [num |-> Occurrences(g, G),
     den |-> Len(G) * ((IF g \in DOMAIN hmap THEN hmap[g] ELSE FloorEpsilon(hmap)) + 1)]

\* C7: the result has min(K, number of distinct n-grams) rows, each distinct
\* n-gram at most once with rawCount its number of occurrences, rows in
\* non-increasing order of ratio, rows of equal ratio in order of first
\* occurrence, and no omitted n-gram has a greater ratio than a returned row.
C7_TopKRanking ==
    RankCall =>
        LET G == met.last.ngrams
            R == met.last.result
            hmap == met.last.humanFreqMap
            returned == {R[i].ngram : i \in 1 .. Len(R)}
        IN /\ Len(R) = Min(met.last.topK, Cardinality(Range(G)))
           /\ \A i, j \in 1 .. Len(R) : i # j => R[i].ngram # R[j].ngram
           /\ \A i \in 1 .. Len(R) :
                 /\ R[i].ngram \in Range(G)
                 /\ R[i].rawCount = Occurrences(R[i].ngram, G)
           /\ \A i \in 1 .. Len(R) - 1 : FracGeq(R[i].ratio, R[i + 1].ratio)
           /\ \A i, j \in 1 .. Len(R) :
                 (i < j /\ FracEq(R[i].ratio, R[j].ratio)) =>
                    FirstOccurrence(R[i].ngram, G) < FirstOccurrence(R[j].ngram, G)
           /\ \A g \in Range(G) \ returned : \A i \in 1 .. Len(R) :
                 FracGeq(R[i].ratio, RatioOf(g, G, hmap))

\* C7 witness: a ranking cut by K, whose rows changed order against the
\* input, with two returned rows of equal ratio and an omitted n-gram
C7_Witness ==
    /\ RankCall
    /\ Len(met.last.result) = 2
    /\ Cardinality(Range(met.last.ngrams)) = 3
    /\ FracEq(met.last.result[1].ratio, met.last.result[2].ratio)
    /\ FirstOccurrence(met.last.result[1].ngram, met.last.ngrams) > 1

\* The rows of the last ranking whose n-gram is absent from the table
AbsentRows ==
    {i \in 1 .. Len(met.last.result) :
        met.last.result[i].ngram \notin DOMAIN met.last.humanFreqMap}

\* C8 as stated: an n-gram absent from the baseline table has the finite
\* ratio observedProportion / epsilon, epsilon the smallest baseline
\* proportion present in the table, for every table (empty ones and ones with
\* entries of proportion 0 included).
C8_RatioIsObservedOverEpsilon ==
    RankCall =>
        \A i \in AbsentRows :
            LET hmap == met.last.humanFreqMap
                vals == {hmap[g] : g \in DOMAIN hmap}
                r == met.last.result[i]
            IN /\ vals # {}
               /\ \E eps \in vals :
                     /\ \A w \in vals : eps <= w
                     /\ eps > 0
                     /\ FracEq(r.ratio,
                               [num |-> Occurrences(r.ngram, met.last.ngrams),
                                den |-> Len(met.last.ngrams) * eps])

\* C8 amended: an n-gram absent from the baseline table has the finite ratio
\* observedProportion / (epsilon + 1e-12), epsilon the smallest positive
\* proportion of the table, or 1e-12 when the table has no positive one.
C8_RatioIsObservedOverFloorPlusSmoothing ==
    RankCall =>
        \A i \in AbsentRows :
            LET r == met.last.result[i]
            IN /\ r.ratio.den > 0
               /\ FracEq(r.ratio,
                         RatioOf(r.ngram, met.last.ngrams, met.last.humanFreqMap))

\* C8 witness: a ranked n-gram absent from a table that holds a proportion 0
\* and positive proportions
C8_Witness ==
    /\ RankCall
    /\ AbsentRows # {}
    /\ \E g, h \in DOMAIN met.last.humanFreqMap :
          met.last.humanFreqMap[g] = 0 /\ met.last.humanFreqMap[h] > 0

\* The sum of the numerators of the fractions stored in a baseline map
RECURSIVE SumNum(_, _)
SumNum(map, keys) ==
    IF keys = {} THEN 0
    ELSE LET g == CHOOSE x \in keys : TRUE
         IN map[g].num + SumNum(map, keys \ {g})

\* The proportions of a baseline map sum to 1 and each lies in (0, 1]
SumsToOne(map, total) ==
    /\ SumNum(map, DOMAIN map) = total
    /\ \A g \in DOMAIN map :
          map[g].den = total /\ 0 < map[g].num /\ map[g].num <= map[g].den

\* C9: after loadHumanProfile, for every profile list with a positive total
\* frequency, the proportions stored in its baseline map sum to 1 and each
\* lies in (0, 1].
C9_ProportionsSumToOne ==
    (ld.hpWrites = 1 /\ ld.hpPc = "idle") =>
        /\ NormTotal(ld.profile.top_bigrams) > 0 =>
              SumsToOne(ld.humanBigramFreq, NormTotal(ld.profile.top_bigrams))
        /\ NormTotal(ld.profile.top_trigrams) > 0 =>
              SumsToOne(ld.humanTrigramFreq, NormTotal(ld.profile.top_trigrams))

\* C10: the underlying load of the word-frequency data is performed at most
\* once however the loadWordfreq calls overlap, and repeated calls of
\* loadHumanProfile and loadSlopSets neither fetch nor rewrite the tables
\* again (one fetch of the profile, one of each of the three slop lists).
C10_LoadedOncePerProcess ==
    /\ ld.wfLoads <= 1
    /\ ld.hpFetches <= 1 /\ ld.hpWrites <= 1
    /\ ld.ssFetches <= 3

\* C11: a resource that cannot be loaded (response not ok) is non-fatal: no
\* loader ends by throwing, the set or table of the missing resource stays
\* empty and the lookup unloaded, and a later computeSlopIndex,
\* rankOveruseWithCounts or lookupZipf call returns its degraded result (zero
\* score for the missing list, ratios against the floor, null)
C11_UnavailableIsNonFatal ==
    ld.pc = "on" =>
        /\ ld.hpPc # "thrown"
        /\ ~ld.ok["words"] => ld.slopWords = {}
        /\ ~ld.ok["bigrams"] => ld.slopBigrams = {}
        /\ ~ld.ok["trigrams"] => ld.slopTrigrams = {}
        /\ ~ld.ok["profile"] =>
              ld.humanBigramFreq = <<>> /\ ld.humanTrigramFreq = <<>>
        /\ ~ld.ok["wordfreq"] => ~WordfreqLoaded(ld.wordfreq)
        /\ (ld.result.fn = "computeSlopIndex" /\ ~ld.ok["words"]) =>
              ld.result.result.wordScore.num = 0
        /\ (ld.result.fn = "computeSlopIndex" /\ ~ld.ok["trigrams"]) =>
              ld.result.result.trigramScore.num = 0
        /\ (ld.result.fn = "rankOveruseWithCounts" /\ ~ld.ok["profile"]) =>
              \A k \in 1 .. Len(ld.result.result) :
                 LET row == ld.result.result[k]
                     G == MakeNgrams(ld.result.tokens, ld.result.n)
                 IN FracEq(row.ratio, [num |-> row.rawCount, den |-> Len(G) * 2])
        /\ (ld.result.fn = "lookupZipf" /\ ~ld.ok["wordfreq"]) =>
              ld.result.result = ZipfNull

\* A sound baseline record: an ngram of two or more words, a numeric frequency
SoundRecord(it) ==
    /\ "ngram" \in DOMAIN it /\ "frequency" \in DOMAIN it
    /\ Len(AlphaTokens(it.ngram)) >= 2

\* A sound slop entry: an array whose first element holds a phrase
SoundItem(item) ==
    /\ item.kind = "array" /\ Len(item.elems) > 0
    /\ item.elems[1] # StringOfNull /\ FirstPhrase(item.elems[1]) # ""

\* C12: malformed entries are skipped and loading continues: loadHumanProfile
\* and loadSlopSets do not throw, and once they have completed every sound
\* record of a list is loaded (baseline lists with a positive total)
C12_MalformedEntriesSkipped ==
    ld.pc = "on" =>
        /\ ld.hpPc # "thrown"
        /\ ld.hpWrites > 0 =>
              \A k \in 1 .. Len(ld.profile.top_bigrams) :
                 LET it == ld.profile.top_bigrams[k]
                 IN SoundRecord(it) /\ NormTotal(ld.profile.top_bigrams) > 0 =>
                      JoinSpace(AlphaTokens(it.ngram)) \in DOMAIN ld.humanBigramFreq
        /\ (ld.ssCalls > 0 /\ ld.ssPc = "idle") =>
              /\ \A k \in 1 .. Len(ld.lists.words) :
                    SoundItem(ld.lists.words[k]) =>
                       FirstPhrase(ld.lists.words[k].elems[1]) \in ld.slopWords
              /\ \A k \in 1 .. Len(ld.lists.bigrams) :
                    SoundItem(ld.lists.bigrams[k]) =>
                       FirstPhrase(ld.lists.bigrams[k].elems[1]) \in ld.slopBigrams
              /\ \A k \in 1 .. Len(ld.lists.trigrams) :
                    SoundItem(ld.lists.trigrams[k]) =>
                       FirstPhrase(ld.lists.trigrams[k].elems[1]) \in ld.slopTrigrams

\* The input map of the last call as a function, and the sum of a map
InputCounts ==
    [w \in {met.wordCounts[k][1] : k \in 1 .. Len(met.wordCounts)} |->
        LET k == CHOOSE i \in 1 .. Len(met.wordCounts) : met.wordCounts[i][1] = w
        IN met.wordCounts[k][2]]

RECURSIVE SumValues(_, _)
SumValues(map, keys) ==
    IF keys = {} THEN 0
    ELSE LET x == CHOOSE y \in keys : TRUE
         IN map[x] + SumValues(map, keys \ {x})

CountIn(map, w) == IF w \in DOMAIN map THEN map[w] ELSE 0

\* What mergePossessives is claimed to return for the input of the last call
FoldsPossessives(in, out) ==
    /\ \A w \in DOMAIN in :
          /\ w \in KNOWN_CONTRACTIONS_S => CountIn(out, w) = in[w]
          /\ (EndsWithS(w) /\ w \notin KNOWN_CONTRACTIONS_S) =>
                CountIn(out, SliceOffTwo(w)) = in[w] + CountIn(in, SliceOffTwo(w))
          /\ ~EndsWithS(w) =>
                CountIn(out, w) = in[w] + CountIn(in, w \o <<"'", "s">>)
    /\ SumValues(out, DOMAIN out) = SumValues(in, DOMAIN in)
    /\ \A w \in DOMAIN out : EndsWithS(w) => w \in KNOWN_CONTRACTIONS_S

\* A word token: letters with at most one apostrophe-and-letters suffix
IsWordToken(w) == w # <<>> /\ w[1] \in LowerLetters /\ WordEnd(w, 1) = Len(w)

\* C14 as stated: for every word-count map mergePossessives adds the count of
\* each non-contraction word ending in 's to its base word, keeps the
\* contractions and the other words with their counts, preserves the sum of
\* the counts and returns no key ending in 's other than a known contraction
C14_FoldsPossessivesOfEveryMap ==
    met.last.fn = "mergePossessives" => FoldsPossessives(InputCounts, met.last.result)

\* C14 amended: the same, for every word-count map whose keys are word tokens
\* (letters with at most one apostrophe-and-letters suffix)
C14_FoldsPossessivesOfTokenMaps ==
    (/\ met.last.fn = "mergePossessives"
     /\ \A w \in DOMAIN InputCounts : IsWordToken(w)) =>
        FoldsPossessives(InputCounts, met.last.result)

\* a possessive folded into its base word next to a contraction that is kept
C14_Witness ==
    /\ met.last.fn = "mergePossessives"
    /\ \A w \in DOMAIN InputCounts : IsWordToken(w)
    /\ {<<"c", "a", "t">>, <<"c", "a", "t", "'", "s">>, <<"i", "t", "'", "s">>}
          \subseteq DOMAIN InputCounts
    /\ met.last.result[<<"c", "a", "t">>] = 3
    /\ <<"i", "t", "'", "s">> \in DOMAIN met.last.result

\* C15: filterNumericWords removes a word if and only if more than 20% of its
\* characters are digits (5 * digits > length); a word with 20% digits or
\* fewer is retained, and every retained word keeps its count
C15_FiltersMostlyNumeric ==
    met.last.fn = "filterNumericWords" =>
        /\ \A w \in DOMAIN InputCounts :
              (w \notin DOMAIN met.last.result) <=> (5 * DigitCount(w) > Len(w))
        /\ \A w \in DOMAIN met.last.result :
              w \in DOMAIN InputCounts /\ met.last.result[w] = InputCounts[w]

\* a word of exactly 20% digits is retained next to a removed one
C15_Witness ==
    /\ met.last.fn = "filterNumericWords"
    /\ <<"a", "b", "c", "1", "d">> \in DOMAIN met.last.result
    /\ <<"a", "1">> \in DOMAIN InputCounts
    /\ <<"a", "1">> \notin DOMAIN met.last.result

\* The positions of a token list at which a phrase of n tokens of the set starts
FlaggedAt(tokens, n, set) ==
    {k \in 1 .. Len(tokens) - n + 1 : JoinSpace(SubSeq(tokens, k, k + n - 1)) \in set}

\* C16: the slop index is weighted over the three phrase lists: each flagged
\* unigram counts 1, each flagged bigram 2 and each flagged trigram 8, per
\* 1000 words; stated of a computeSlopIndex call against the sets loaded at
\* the call (both scores are fractions over the number of tokens)
C16_WeightedSlopIndex ==
    [][(ld.pc = "on" /\ ld'.result # ld.result
        /\ ld'.result.fn = "computeSlopIndex") =>
          LET tokens == ld'.result.tokens
              r == ld'.result.result
          IN r.wordScore.num + r.trigramScore.num =
                1000 * (1 * Cardinality(FlaggedAt(tokens, 1, ld.slopWords))
                        + 2 * Cardinality(FlaggedAt(tokens, 2, ld.slopBigrams))
                        + 8 * Cardinality(FlaggedAt(tokens, 3, ld.slopTrigrams)))]_vars

\* The samples of the file are in strictly ascending order of prompt_index
StrictlyAscending(ss) ==
    \A k \in 1 .. Len(ss) - 1 : ss[k].prompt_index < ss[k + 1].prompt_index

MergerInput ==
    IF met.last.tagging = "available" THEN met.stage1 \cup met.stage2
    ELSE met.stage1

\* C17: the MergedMatch sequence of the Interval Merger is sorted ascending by
\* start offset, its spans are pairwise non-overlapping, and every span
\* satisfies 0 <= start <= end within the document length
C17_MergedSortedDisjointInBounds ==
    met.last.fn = "detectContrast" =>
        LET r == met.last.result
        IN /\ \A i, j \in 1 .. Len(r) :
                 i < j => /\ r[i].startOffset <= r[j].startOffset
                          /\ r[i].endOffset <= r[j].startOffset
           /\ \A k \in 1 .. Len(r) :
                 /\ 0 <= r[k].startOffset /\ r[k].startOffset <= r[k].endOffset
                 /\ r[k].endOffset <= MaxDocLen

\* C18: no detected pattern is dropped: every input Match lies inside exactly
\* one output MergedMatch span and its pattern identifier is in that
\* MergedMatch's sourcePatternIds
C18_EveryMatchInExactlyOneMerged ==
    met.last.fn = "detectContrast" =>
        LET r == met.last.result
        IN \A m \in MergerInput :
              LET inside == {k \in 1 .. Len(r) :
                               /\ r[k].startOffset <= m.startOffset
                               /\ m.endOffset <= r[k].endOffset}
              IN /\ Cardinality(inside) = 1
                 /\ \A k \in inside : m.patternId \in r[k].sourcePatternIds

\* C19: without the Tagging Adapter the result is built from the Stage-1
\* matches only, and its contrast score (merged matches per 1000 characters
\* of the same text) is at most the score obtained with Stage 2 enabled
C19_Stage1OnlyScoreAtMost ==
    (met.last.fn = "detectContrast" /\ met.last.tagging # "available") =>
        /\ met.last.result = IntervalMerger(met.stage1, met.starts)
        /\ Len(met.last.result) * 1000 <=
              Len(IntervalMerger(met.stage1 \cup met.stage2, met.starts)) * 1000

\* The prompts selected for generation by this run
Selected == Range(toGen)

\* The stored samples of prompt index i
SamplesOf(data, i) ==
    SelectSeq(data.samples, LAMBDA s : s.prompt_index = i)

\* Every selected prompt has exactly one sample in the file, the one its
\* task wrote, and the task has counted it
AllRecorded ==
    /\ \A i \in Selected :
          /\ tpc[i] = "done"
          /\ SamplesOf(file, i) = <<tsample[i]>>
    /\ completed_count + error_count = Len(toGen)

\* completed_at is about to be written, or has been written, by this run
MarkReached == mainPc \in {"markcs", "done"} \/ file.completed_at = "new"

\* C21: when every generation request eventually succeeds or fails, the run
\* eventually writes completed_at; completed_at is written only when every
\* selected prompt has exactly one sample written, and then completed_count +
\* error_count is the number of selected prompts
C21_RunCompletes ==
    /\ [](MarkReached => AllRecorded)
    /\ <>(mainPc = "done" /\ file.completed_at = "new" /\ AllRecorded)

\* C21 witness: a finished run of three selected prompts, recorded with
\* outputs and with an error, one of them replacing a stored failed sample
C21_Witness ==
    /\ mainPc = "done" /\ file.completed_at = "new"
    /\ Len(toGen) = MaxPrompts
    /\ completed_count >= 1 /\ error_count >= 1
    /\ \E i \in Selected : SamplesOf(file0, i) # <<>>

\* The prompts of this run whose generation failed on every attempt, and
\* those whose generation returned a text
FailedNow == {i \in Indices : tpc[i] = "done" /\ Truthy(tsample[i].error)}
ReturnedNow == {i \in Indices : tpc[i] = "done" /\ ~Truthy(tsample[i].error)}

\* The prompts within --n-prompts for which the file the run started from
\* holds an error sample (a failure of an earlier run)
FailedBefore ==
    {i \in Indices :
        /\ i < Min(nPrompts, MaxPrompts)
        /\ SamplesOf(file0, i) # <<>>
        /\ Truthy(SamplesOf(file0, i)[1].error)}

\* C22: a prompt whose generation fails on every attempt is recorded with
\* empty output and the error message and counted in error_count only; the
\* file then does not count it as generated; a run that starts from a file
\* with an error sample selects that index again, and the sample of a later
\* success replaces the error sample, leaving one sample without error field
C22_FailedPromptRecordedAndRetried ==
    /\ \A i \in FailedNow :
          /\ SamplesOf(file, i) = <<Sample(i, "", tsample[i].error)>>
          /\ i \notin GetCompletedPrompts(file)
    /\ error_count = Cardinality(FailedNow)
    /\ completed_count = Cardinality(ReturnedNow)
    /\ mainPc # "start" => FailedBefore \subseteq Selected
    /\ \A i \in FailedBefore \cap ReturnedNow :
          /\ SamplesOf(file, i) = <<tsample[i]>>
          /\ SamplesOf(file, i)[1].error = Absent

\* C22 witness: a finished run in which one prompt failed, a prompt started
\* after it was recorded with its text, and the error sample of an earlier
\* run was replaced by a success
C22_Witness ==
    /\ mainPc = "done"
    /\ \E i \in FailedNow, j \in ReturnedNow :
          i < j /\ Truthy(tsample[j].output)
    /\ \E i \in FailedBefore \cap ReturnedNow : Truthy(tsample[i].output)

\* C23: every prompt the finished run counted in completed_count is in the
\* `generated` set getCompletedPrompts computes from the file the run leaves
\* (the file the next run starts from), whatever text was returned
C23_CompletedAreGenerated ==
    mainPc = "done" =>
        /\ completed_count = Cardinality(ReturnedNow)
        /\ ReturnedNow \subseteq GetCompletedPrompts(file)

\* The stored samples whose prompt index is not i
SamplesBut(data, i) ==
    SelectSeq(data.samples, LAMBDA s : s.prompt_index # i)

C25_RequestBoundedByTimeout ==
    /\ Pending => rt.clock <= rt.timeout
    /\ rt.pc = "body" => rt.armed
    /\ rt.pc \in {"returned", "thrown"} => ~rt.armed /\ rt.clock <= rt.timeout

============================================================================
